---- MODULE Spec2Model ----
(***************************************************************************)
(* RevBorrowedBuf / RevBorrowedCursor (src/src/read_back/                  *)
(* rev_read_borrowed_buf.rs): a borrowed byte buffer that is filled and    *)
(* initialized from its high end towards index 0.                          *)
(*                                                                         *)
(* Rust index i (0-based) is sequence index i + 1; the Rust slice          *)
(* buf[a..b] is SubSeq(buf, a + 1, b).                                     *)
(***************************************************************************)
EXTENDS Integers, Sequences, FiniteSets, TLC

\* ---------------------------------------------------------------- bounds
MaxCap == 3
MaxDepth == 2

\* The width of usize, scaled down from 64 bits: wide enough that a wrapped
\* index lies beyond every capacity.
UsizeBits == 3

\* The byte values the model distinguishes (u8 abstracted to two values; 0 is
\* the value ensure_init writes).
Byte == {0, 1}
\* A MaybeUninit<u8> that holds no defined value.
Undef == -1
MaybeByte == Byte \cup {Undef}

\* Longest data slice handed to append: one more than any capacity, so that
\* the over-capacity case happens in every state.
MaxData == MaxCap + 1

SeqsUpTo(S, n) == UNION {[1..k -> S] : k \in 0..n}

VARIABLES
    buf,      \* RevBorrowedBuf::buf    : the region, a sequence of MaybeByte
    filled,   \* RevBorrowedBuf::filled : first filled index
    init,     \* RevBorrowedBuf::init   : first initialized index
    cursors,  \* live RevBorrowedCursor values, innermost reborrow last; each is its `start`
    since,    \* history, one entry per live cursor: bytes written (append/advance)
              \* since that cursor was made by unfilled() or reborrow()
    last,     \* history: the operation that produced this state
    rt        \* round-trip scenario: the content D, what is left to append, the order

vars == <<buf, filled, init, cursors, since, last, rt>>

\* ------------------------------------------------------ integer helpers
\* cmp::min
min(a, b) == IF a <= b THEN a ELSE b

\* usize subtraction without overflow checks (release builds): it wraps.
wrapping_sub(a, b) == (a - b) % (2 ^ UsizeBits)

\* usize::saturating_sub
saturating_sub(a, b) == IF b >= a THEN 0 ELSE a - b

\* ------------------------------------------------------ the view (struct)
RevBorrowedBuf(b, f, i) == [buf |-> b, filled |-> f, init |-> i]

\* The view as it is now.
Self == RevBorrowedBuf(buf, filled, init)

\* impl From<&mut [u8]>: a fully initialized slice.
from_slice(slice) == RevBorrowedBuf(slice, Len(slice), 0)

\* impl From<&mut [MaybeUninit<u8>]>: nothing is known to be initialized.
from_uninit(slice) == RevBorrowedBuf(slice, Len(slice), Len(slice))

capacity(self) == Len(self.buf)

len(self) == capacity(self) - self.filled

is_empty(self) == Len(self.buf) = 0

init_len(self) == capacity(self) - self.init

\* filled(): &self.buf[self.filled..]
filled_ref(self) == SubSeq(self.buf, self.filled + 1, Len(self.buf))

\* Mutants of clear: one forgets what was initialized, one resets to the
\* forward buffer's empty position.
clear_resets_init(self) ==
    [self EXCEPT !.filled = capacity(self), !.init = capacity(self)]

clear_to_zero(self) == [self EXCEPT !.filled = 0]

clear(self) == [self EXCEPT !.filled = capacity(self)]

\* RevBorrowedBuf::set_init
buf_set_init(self, n) == [self EXCEPT !.init = min(self.init, n)]

\* ---------------------------------------------------- the cursor (struct)
\* unfilled(): the new cursor's start.
unfilled(self) == self.filled

\* Mutant of capacity(): the forward buffer's remaining space.
cursor_capacity_forward(self) == capacity(self) - self.filled

cursor_capacity(self) == self.filled

\* Mutant of reborrow: the new cursor counts from the reborrow on.
reborrow_at_filled(start) == filled

\* reborrow(): the new cursor's start, from the reborrowed cursor's start.
reborrow(start) == start

written(start, self) == start - self.filled

\* init_ref() / init_mut(): &self.buf.buf[self.buf.init..]
init_ref(self) == SubSeq(self.buf, self.init + 1, Len(self.buf))

\* uninit_mut(): the indices (0-based) of &mut self.buf.buf[..self.buf.init]
uninit_mut(self) == 0..(self.init - 1)

\* as_mut(): the indices (0-based) of &mut self.buf.buf[..self.buf.filled];
\* the slicing panics, and hands out nothing, when filled is out of range.
as_mut_panics(self) == self.filled > Len(self.buf)

as_mut(self) == IF as_mut_panics(self) THEN {} ELSE 0..(self.filled - 1)

\* Mutant of advance: init is not pulled down to the new filled.
advance_no_min(self, n) == [self EXCEPT !.filled = self.filled - n]

\* Mutant of advance: filled moves up, as in the forward buffer.
advance_up(self, n) ==
    LET f == self.filled + n
    IN  [self EXCEPT !.filled = f, !.init = min(self.init, f)]

\* `self.buf.filled -= n` overflows.
advance_overflows(self, n) == n > self.filled

\* advance(n): filled -= n, init = min(init, filled). When the subtraction
\* overflows, this is what a build without overflow checks stores; a build
\* with them panics before the store.
advance(self, n) ==
    LET f == wrapping_sub(self.filled, n)
    IN  [self EXCEPT !.filled = f, !.init = min(self.init, f)]

\* Mutants of ensure_init: init = 0 without the write_bytes; write_bytes over
\* the whole region.
ensure_init_no_write(self) == [self EXCEPT !.init = 0]

ensure_init_zero_all(self) ==
    [self EXCEPT !.buf = [j \in 1..Len(self.buf) |-> 0], !.init = 0]

\* ensure_init(): zero the uninit_mut() range, then init = 0.
ensure_init(self) ==
    [self EXCEPT !.buf = [j \in 1..Len(self.buf) |->
                            IF (j - 1) \in uninit_mut(self) THEN 0 ELSE self.buf[j]],
                 !.init = 0]

\* Mutants of Cursor::set_init: a plain subtraction (here: below zero), and
\* one byte too many.
cursor_set_init_plain_sub(self, n) ==
    [self EXCEPT !.init = min(self.init, self.filled - n)]

cursor_set_init_one_more(self, n) ==
    [self EXCEPT !.init = min(self.init, saturating_sub(self.filled, n + 1))]

\* RevBorrowedCursor::set_init
cursor_set_init(self, n) ==
    [self EXCEPT !.init = min(self.init, saturating_sub(self.filled, n))]

\* Mutants of append. Truncating: no assert, the last bytes of data that fit
\* are copied. At front: the copy goes to the head of the unfilled range, as
\* in the forward buffer. Reversed: the bytes land in reverse order.
append_truncating(self, data) ==
    LET k      == min(Len(data), self.filled)
        off    == self.filled - k
        copied == [self EXCEPT !.buf = [j \in 1..Len(self.buf) |->
                      IF j > off /\ j <= self.filled
                      THEN data[Len(data) - k + (j - off)] ELSE self.buf[j]]]
        marked == cursor_set_init(copied, k)
    IN  [view |-> [marked EXCEPT !.filled = marked.filled - k], panicked |-> FALSE]

append_at_front(self, data) ==
    IF ~(cursor_capacity(self) >= Len(data))
    THEN [view |-> self, panicked |-> TRUE]
    ELSE LET copied == [self EXCEPT !.buf = [j \in 1..Len(self.buf) |->
                           IF j <= Len(data) THEN data[j] ELSE self.buf[j]]]
             marked == cursor_set_init(copied, Len(data))
         IN  [view |-> [marked EXCEPT !.filled = marked.filled - Len(data)],
              panicked |-> FALSE]

append_reversed(self, data) ==
    IF ~(cursor_capacity(self) >= Len(data))
    THEN [view |-> self, panicked |-> TRUE]
    ELSE LET off    == saturating_sub(self.filled, Len(data))
             copied == [self EXCEPT !.buf = [j \in 1..Len(self.buf) |->
                           IF j > off /\ j <= self.filled
                           THEN data[Len(data) + 1 - (j - off)] ELSE self.buf[j]]]
             marked == cursor_set_init(copied, Len(data))
         IN  [view |-> [marked EXCEPT !.filled = marked.filled - Len(data)],
              panicked |-> FALSE]

\* append(data): the assert, the copy into the tail of as_mut(), set_init, filled -= len.
\* The result carries `panicked`; a panicking call returns the view untouched.
append(self, data) ==
    IF ~(cursor_capacity(self) >= Len(data)) \/ as_mut_panics(self)
    THEN [view |-> self, panicked |-> TRUE]
    ELSE LET mut_init_slice_len == self.filled
             off    == saturating_sub(mut_init_slice_len, Len(data))
             copied == [self EXCEPT !.buf = [j \in 1..Len(self.buf) |->
                           IF j > off /\ j <= mut_init_slice_len
                           THEN data[j - off] ELSE self.buf[j]]]
             marked == cursor_set_init(copied, Len(data))
         IN  [view |-> [marked EXCEPT !.filled = marked.filled - Len(data)],
              panicked |-> FALSE]

\* ------------------------------------------------------------ bookkeeping
\* The operation a step performed. n is its count argument (for append the
\* length of the data); for clear the filled length it discarded, for drop the
\* bytes written through the released cursor, for ensure_init the bytes it
\* zeroed. data is what append copied.
\* A store through one of the slices the accessors hand out is "store".
Op(name, n, data, panicked) ==
    [name |-> name, n |-> n, data |-> data, panicked |-> panicked]

\* No round-trip scenario is running.
NoRT == [src |-> <<>>, rem |-> <<>>, dir |-> "none", phase |-> "none", chunks |-> 0]

SetView(v) == buf' = v.buf /\ filled' = v.filled /\ init' = v.init

\* The values a caller may store at 0-based index i without de-initializing a
\* byte the view tracks as initialized.
Storable(self, i) == IF i < self.init THEN MaybeByte ELSE Byte

WriteAt(self, i, v) == [self EXCEPT !.buf[i + 1] = v]

\* Every byte at the 0-based indices lo .. hi-1 holds a defined value.
Defined(self, lo, hi) == \A i \in lo..(hi - 1) : self.buf[i + 1] # Undef

\* The live cursor (the innermost reborrow): its start.
Top == cursors[Len(cursors)]

\* `since` after n more bytes were written through the live cursor, counted
\* in usize.
Wrote(n) == [k \in DOMAIN since |-> (since[k] + n) % (2 ^ UsizeBits)]

\* ------------------------------------------------------------------ Init
InitView(v, name) ==
    /\ buf = v.buf /\ filled = v.filled /\ init = v.init
    /\ cursors = <<>>
    /\ since = <<>>
    /\ last = Op(name, 0, <<>>, FALSE)

Init ==
    /\ rt = NoRT
    /\ \E c \in 0..MaxCap :
          \/ \E s \in [1..c -> Byte]      : InitView(from_slice(s), "from_slice")
          \/ \E s \in [1..c -> MaybeByte] : InitView(from_uninit(s), "from_uninit")

\* ------------------------------------------------- operations on the view
\* (the borrow checker allows them only while no cursor is live)
DoClear ==
    /\ cursors = <<>>
    /\ SetView(clear(Self))
    /\ last' = Op("clear", len(Self), <<>>, FALSE)
    /\ UNCHANGED <<cursors, since>>

Clear == DoClear /\ UNCHANGED rt

BufSetInit(n) ==
    /\ cursors = <<>>
    /\ SetView(buf_set_init(Self, n))
    /\ last' = Op("buf_set_init", n, <<>>, FALSE)
    /\ UNCHANGED <<cursors, since, rt>>

\* A store through filled_mut().
FilledMutWrite(i, v) ==
    /\ cursors = <<>>
    /\ i >= filled /\ i < capacity(Self)
    /\ SetView(WriteAt(Self, i, v))
    /\ last' = Op("store", 0, <<>>, FALSE)
    /\ UNCHANGED <<cursors, since, rt>>

DoUnfilled ==
    /\ cursors = <<>>
    /\ cursors' = <<unfilled(Self)>>
    /\ since' = <<0>>
    /\ last' = Op("unfilled", 0, <<>>, FALSE)
    /\ UNCHANGED <<buf, filled, init>>

Unfilled == DoUnfilled /\ UNCHANGED rt

\* ----------------------------------------------- operations on the cursor
Reborrow ==
    /\ cursors # <<>>
    /\ Len(cursors) < MaxDepth
    /\ cursors' = Append(cursors, reborrow(Top))
    /\ since' = Append(since, 0)
    /\ last' = Op("reborrow", 0, <<>>, FALSE)
    /\ UNCHANGED <<buf, filled, init, rt>>

\* The live cursor goes out of scope: the cursor it reborrowed, or the view,
\* is usable again.
DoDrop ==
    /\ cursors # <<>>
    /\ cursors' = SubSeq(cursors, 1, Len(cursors) - 1)
    /\ since' = SubSeq(since, 1, Len(since) - 1)
    /\ last' = Op("drop", since[Len(since)], <<>>, FALSE)
    /\ UNCHANGED <<buf, filled, init>>

Drop == DoDrop /\ UNCHANGED rt

DoAppend(data) ==
    /\ cursors # <<>>
    /\ LET r == append(Self, data)
       IN  /\ SetView(r.view)
           /\ since' = Wrote(IF r.panicked THEN 0 ELSE Len(data))
           /\ last' = Op("append", Len(data), IF r.panicked THEN <<>> ELSE data, r.panicked)
    /\ UNCHANGED cursors

AppendData(data) == DoAppend(data) /\ UNCHANGED rt

\* advance(n) within the cursor's capacity.
Advance(n) ==
    /\ cursors # <<>>
    /\ ~advance_overflows(Self, n)
    /\ SetView(advance(Self, n))
    /\ since' = Wrote(n)
    /\ last' = Op("advance", n, <<>>, FALSE)
    /\ UNCHANGED <<cursors, rt>>

EnsureInit ==
    /\ cursors # <<>>
    /\ SetView(ensure_init(Self))
    /\ last' = Op("ensure_init", init, <<>>, FALSE)
    /\ UNCHANGED <<cursors, since, rt>>

CursorSetInit(n) ==
    /\ cursors # <<>>
    /\ SetView(cursor_set_init(Self, n))
    /\ last' = Op("cursor_set_init", n, <<>>, FALSE)
    /\ UNCHANGED <<cursors, since, rt>>

\* A store through uninit_mut(): any value, defined or not.
UninitMutWrite(i, v) ==
    /\ cursors # <<>>
    /\ i \in uninit_mut(Self)
    /\ SetView(WriteAt(Self, i, v))
    /\ last' = Op("store", 0, <<>>, FALSE)
    /\ UNCHANGED <<cursors, since, rt>>

\* A store through as_mut() that honours its contract.
AsMutWrite(i, v) ==
    /\ cursors # <<>>
    /\ i \in as_mut(Self)
    /\ v \in Storable(Self, i)
    /\ SetView(WriteAt(Self, i, v))
    /\ last' = Op("store", 0, <<>>, FALSE)
    /\ UNCHANGED <<cursors, since, rt>>

\* A store through init_mut().
InitMutWrite(i, v) ==
    /\ cursors # <<>>
    /\ i >= init /\ i < capacity(Self)
    /\ SetView(WriteAt(Self, i, v))
    /\ last' = Op("store", 0, <<>>, FALSE)
    /\ UNCHANGED <<cursors, since, rt>>

\* ------------------------------------------------------- specifications
Indices == 0..(MaxCap - 1)
Counts  == 0..(MaxCap + 1)

\* The data slices handed to append, up to MaxData bytes. Data that append
\* copies: every content. Data it panics on: one content per length, since
\* append reads only its length before it panics and the history keeps only
\* that length.
Datas ==
    SeqsUpTo(Byte, IF as_mut_panics(Self) THEN 0 ELSE min(filled, MaxData))
        \cup {[j \in 1..k |-> 0] : k \in 0..MaxData}

\* Every operation, with any argument that does not overflow.
Next ==
    \/ Clear
    \/ \E n \in Counts : BufSetInit(n)
    \/ \E i \in Indices, v \in Byte : FilledMutWrite(i, v)
    \/ Unfilled
    \/ Reborrow
    \/ Drop
    \/ \E data \in Datas : AppendData(data)
    \/ \E n \in Counts : Advance(n)
    \/ EnsureInit
    \/ \E n \in Counts : CursorSetInit(n)
    \/ \E i \in Indices, v \in MaybeByte : UninitMutWrite(i, v)
    \/ \E i \in Indices, v \in MaybeByte : AsMutWrite(i, v)
    \/ \E i \in Indices, v \in Byte : InitMutWrite(i, v)

Spec == Init /\ [][Next]_vars

\* Only what the preconditions of the restricted operations allow: advance(n)
\* after the n bytes below filled were written, Cursor::set_init(n) when the
\* bytes it marks are initialized, and no RevBorrowedBuf::set_init.
AdvanceWritten(n) ==
    /\ n <= cursor_capacity(Self)
    /\ Defined(Self, filled - n, filled)
    /\ Advance(n)

CursorSetInitWritten(n) ==
    /\ Defined(Self, saturating_sub(filled, n), filled)
    /\ CursorSetInit(n)

NextHonoured ==
    \/ Clear
    \/ \E i \in Indices, v \in Byte : FilledMutWrite(i, v)
    \/ Unfilled
    \/ Reborrow
    \/ Drop
    \/ \E data \in Datas : AppendData(data)
    \/ \E n \in Counts : AdvanceWritten(n)
    \/ EnsureInit
    \/ \E n \in Counts : CursorSetInitWritten(n)
    \/ \E i \in Indices, v \in MaybeByte : UninitMutWrite(i, v)
    \/ \E i \in Indices, v \in MaybeByte : AsMutWrite(i, v)
    \/ \E i \in Indices, v \in Byte : InitMutWrite(i, v)

SpecHonoured == Init /\ [][NextHonoured]_vars

\* The restricted operations with their preconditions honoured, and with them
\* RevBorrowedBuf::set_init(n) called when the trailing n bytes of the region
\* are initialized.
BufSetInitAttested(n) ==
    /\ n <= capacity(Self)
    /\ Defined(Self, capacity(Self) - n, capacity(Self))
    /\ BufSetInit(n)

NextAttested ==
    \/ NextHonoured
    \/ \E n \in Counts : BufSetInitAttested(n)

SpecAttested == Init /\ [][NextAttested]_vars

\* Every build: advance(n) beyond the cursor's capacity panics where overflow
\* checks are compiled in, and stores the wrapped difference where they are
\* not. One cursor at a time, with the operations that move filled and the
\* ones that read it afterwards; the rest is left to Spec.
AdvancePanics(n) ==
    /\ cursors # <<>>
    /\ advance_overflows(Self, n)
    /\ last' = Op("advance", n, <<>>, TRUE)
    /\ UNCHANGED <<buf, filled, init, cursors, since, rt>>

AdvanceWraps(n) ==
    /\ cursors # <<>>
    /\ advance_overflows(Self, n)
    /\ SetView(advance(Self, n))
    /\ since' = Wrote(n)
    /\ last' = Op("advance", n, <<>>, FALSE)
    /\ UNCHANGED <<cursors, rt>>

NextBuild ==
    \/ Clear
    \/ Unfilled
    \/ Drop
    \/ \E data \in Datas : AppendData(data)
    \/ \E n \in Counts : Advance(n)
    \/ EnsureInit
    \/ \E n \in Counts : AdvancePanics(n)
    \/ \E n \in Counts : AdvanceWraps(n)

SpecBuild == Init /\ [][NextBuild]_vars

\* The operations that carry no `unsafe` marker, with arguments that do not
\* fault: no as_mut(), no set_init.
NextSafeApi ==
    \/ Clear
    \/ \E i \in Indices, v \in Byte : FilledMutWrite(i, v)
    \/ Unfilled
    \/ Reborrow
    \/ Drop
    \/ \E data \in Datas : AppendData(data)
    \/ \E n \in Counts : Advance(n)
    \/ EnsureInit
    \/ \E i \in Indices, v \in MaybeByte : UninitMutWrite(i, v)
    \/ \E i \in Indices, v \in Byte : InitMutWrite(i, v)

SpecSafeApi == Init /\ [][NextSafeApi]_vars

\* The round trip: a view over a fully initialized region holding D, used or
\* not, is cleared, and a cursor then appends the bytes of D in chunks, either
\* in their order within D or last chunk first.
InitRoundTrip ==
    \E c \in 0..MaxCap : \E s \in [1..c -> Byte] : \E d \in {"in_order", "last_first"} :
        /\ InitView(from_slice(s), "from_slice")
        /\ rt = [src |-> s, rem |-> s, dir |-> d, phase |-> "built", chunks |-> 0]

RTUnfilled ==
    /\ rt.phase \in {"built", "cleared"}
    /\ DoUnfilled
    /\ rt' = [rt EXCEPT !.phase = IF rt.phase = "built" THEN "session" ELSE "writing"]

\* Before the clear: any append through a first cursor.
RTAppendAny(data) ==
    /\ rt.phase = "session"
    /\ DoAppend(data)
    /\ UNCHANGED rt

RTDrop ==
    /\ rt.phase = "session"
    /\ DoDrop
    /\ rt' = [rt EXCEPT !.phase = "used"]

RTClear ==
    /\ rt.phase \in {"built", "used"}
    /\ DoClear
    /\ rt' = [rt EXCEPT !.phase = "cleared"]

\* The next chunk of k bytes of what is left of D.
Chunk(k) ==
    IF rt.dir = "in_order" THEN SubSeq(rt.rem, 1, k)
    ELSE SubSeq(rt.rem, Len(rt.rem) - k + 1, Len(rt.rem))

Rest(k) ==
    IF rt.dir = "in_order" THEN SubSeq(rt.rem, k + 1, Len(rt.rem))
    ELSE SubSeq(rt.rem, 1, Len(rt.rem) - k)

RTAppendChunk(k) ==
    /\ rt.phase = "writing"
    /\ k \in 1..Len(rt.rem)
    /\ DoAppend(Chunk(k))
    /\ rt' = [rt EXCEPT !.rem = Rest(k), !.chunks = rt.chunks + 1]

RoundTripDone == rt.phase = "writing" /\ rt.rem = <<>>

NextRoundTrip ==
    \/ RTUnfilled
    \/ \E data \in Datas : RTAppendAny(data)
    \/ RTDrop
    \/ RTClear
    \/ \E k \in 1..MaxCap : RTAppendChunk(k)

SpecRoundTrip == InitRoundTrip /\ [][NextRoundTrip]_vars

\* The life cycle of one view of capacity > 0: cursors are opened with
\* unfilled(), append is called with any data, cursors are dropped, and clear()
\* is called at any time. rt.chunks counts the non-empty appends that succeeded
\* since the view was last Empty; rt.phase turns "again" at the first clear() of
\* a Full view.
InitLifeCycle ==
    /\ rt = [NoRT EXCEPT !.phase = "life"]
    /\ \E c \in 1..MaxCap :
          \/ \E s \in [1..c -> Byte] : InitView(from_slice(s), "from_slice")
          \/ InitView(from_uninit([j \in 1..c |-> Undef]), "from_uninit")

LCUnfilled == DoUnfilled /\ UNCHANGED rt

LCAppend(data) ==
    /\ DoAppend(data)
    /\ rt' = [rt EXCEPT !.chunks =
                IF Len(data) > 0 /\ ~append(Self, data).panicked THEN @ + 1 ELSE @]

LCDrop == DoDrop /\ UNCHANGED rt

LCClear ==
    /\ DoClear
    /\ rt' = [rt EXCEPT !.chunks = 0,
                        !.phase = IF filled = 0 THEN "again" ELSE @]

\* An append of a non-empty chunk no larger than capacity().
LCAppendFits ==
    \E data \in Datas :
        /\ Len(data) > 0 /\ Len(data) <= cursor_capacity(Self)
        /\ LCAppend(data)

NextLifeCycle ==
    \/ LCUnfilled
    \/ \E data \in Datas : LCAppend(data)
    \/ LCDrop
    \/ LCClear

\* The run keeps appending: it opens a cursor whenever none is live, and
\* appends a non-empty chunk that fits again and again while one can be appended.
SpecLifeCycle ==
    /\ InitLifeCycle
    /\ [][NextLifeCycle]_vars
    /\ WF_vars(LCUnfilled)
    /\ SF_vars(LCAppendFits)

\* ------------------------------------------------------------- properties
NoUndef(s) == \A k \in 1..Len(s) : s[k] # Undef

\* C1: in every reachable state 0 <= init <= filled <= capacity: the filled
\* region is a subset of the initialized region.
BoundariesOrdered ==
    /\ 0 <= init
    /\ init <= filled
    /\ filled <= capacity(Self)

\* A cursor is live on a view whose three regions are all non-empty and whose
\* initialized region is larger than the filled one.
BoundariesOrderedWitness ==
    /\ cursors # <<>>
    /\ 0 < init /\ init < filled /\ filled < capacity(Self)

\* C2: when the preconditions of advance and Cursor::set_init are honoured,
\* every byte at index >= init holds a defined value, so filled(),
\* filled_mut(), init_ref() and init_mut() expose no undefined byte.
InitializedIsDefined ==
    /\ Defined(Self, init, capacity(Self))
    /\ NoUndef(filled_ref(Self))
    /\ NoUndef(init_ref(Self))

\* An advance over caller-written bytes of a region that still holds an
\* undefined byte.
InitializedIsDefinedWitness ==
    /\ last.name = "advance" /\ last.n > 0
    /\ init < capacity(Self)
    /\ ~NoUndef(buf)

\* C3: in every step init does not increase; filled decreases only in append
\* or advance, and increases only in clear, to exactly capacity.
BoundariesMonotonic ==
    [][/\ init' <= init
       /\ filled' < filled => last'.name \in {"append", "advance"}
       /\ filled' > filled => last'.name = "clear" /\ filled' = capacity(Self')
      ]_vars

\* clear() has discarded filled bytes of a view whose init had moved down.
BoundariesMonotonicWitness ==
    /\ last.name = "clear" /\ last.n > 0
    /\ 0 < init /\ init < filled

\* C4: append(data) with len(data) > capacity() panics and leaves the region,
\* both boundaries and the cursor (start, written()) as they were.
AppendOverCapacityFails ==
    [][(last'.name = "append" /\ last'.n > cursor_capacity(Self)) =>
          /\ last'.panicked
          /\ buf' = buf /\ filled' = filled /\ init' = init
          /\ cursors' = cursors
          /\ written(Top', Self') = written(Top, Self)
      ]_vars

\* A panicked append of data that is longer than a non-zero capacity (so a
\* truncated copy would have been possible).
AppendOverCapacityFailsWitness ==
    /\ last.name = "append" /\ last.panicked
    /\ last.n > cursor_capacity(Self)
    /\ cursor_capacity(Self) > 0

RoundTripInOrder ==
    (RoundTripDone /\ rt.dir = "in_order") =>
        /\ len(Self) = Len(rt.src)
        /\ filled_ref(Self) = rt.src

\* C6 as amended: after clear(), appending the bytes of D in consecutive
\* chunks, last chunk first (or in one chunk), leaves filled() of length L and
\* equal to D for every split.
RoundTripLastFirst ==
    (RoundTripDone /\ (rt.dir = "last_first" \/ rt.chunks <= 1)) =>
        /\ len(Self) = Len(rt.src)
        /\ filled_ref(Self) = rt.src

\* D, whose first and last bytes differ, has been appended last chunk first in
\* two or more chunks.
RoundTripLastFirstWitness ==
    /\ RoundTripDone /\ rt.dir = "last_first" /\ rt.chunks >= 2
    /\ rt.src[1] # rt.src[Len(rt.src)]

\* C7 as stated: init_ref() and init_mut() expose exactly the bytes at indices
\* [init, filled), so no filled byte is reachable through the cursor.
InitRefStopsAtFilled ==
    cursors # <<>> => init_ref(Self) = SubSeq(buf, init + 1, filled)

\* C8: every live cursor's start is >= filled, all cursors of a lineage share
\* the start, and written() of each is the number of bytes written since
\* unfilled(), through whichever cursor of the lineage.
WrittenCountsLineage ==
    \A k \in DOMAIN cursors :
        /\ cursors[k] >= filled
        /\ cursors[k] = cursors[1]
        /\ written(cursors[k], Self) = since[1]

\* A reborrowed cursor that wrote bytes was released, and the cursor it came
\* from had written bytes before the reborrow.
WrittenCountsLineageWitness ==
    /\ last.name = "drop" /\ last.n > 0
    /\ cursors # <<>>
    /\ written(Top, Self) > last.n

\* C9: clear() sets filled to capacity (len() = 0, filled() empty) and leaves
\* init, init_len() and every byte unchanged; a cursor taken right after it has
\* capacity() = the view's capacity and written() = 0.
ClearResetsFilled ==
    [][/\ last'.name = "clear" =>
            /\ filled' = capacity(Self)
            /\ len(Self') = 0
            /\ filled_ref(Self') = <<>>
            /\ init' = init
            /\ init_len(Self') = init_len(Self)
            /\ buf' = buf
       /\ (last.name = "clear" /\ last'.name = "unfilled") =>
            /\ cursor_capacity(Self') = capacity(Self')
            /\ written(Top', Self') = 0
      ]_vars

\* A completely filled view of two or more bytes was cleared.
ClearResetsFilledWitness ==
    /\ last.name = "clear"
    /\ last.n = capacity(Self) /\ last.n > 1

\* C10 as stated: RevBorrowedBuf::set_init(n) with n < init_len() changes
\* nothing.
BufSetInitFewerIsNoOp ==
    [][(last'.name = "buf_set_init" /\ last'.n < init_len(Self)) =>
          /\ init' = init /\ filled' = filled /\ buf' = buf
      ]_vars

\* C11: ensure_init(), from boundaries (f, i), writes 0 to every index in
\* [0, i), sets init = 0 and leaves filled and every byte at index >= i as
\* they were; on a fresh raw region every byte then reads 0, and with init = 0
\* already (a second call) nothing changes.
EnsureInitZeroesPrefix ==
    [][last'.name = "ensure_init" =>
          /\ Len(buf') = Len(buf)
          /\ \A j \in 0..(Len(buf) - 1) :
                buf'[j + 1] = IF j < init THEN 0 ELSE buf[j + 1]
          /\ init' = 0
          /\ filled' = filled
          /\ (init = capacity(Self) /\ filled = capacity(Self)) =>
                \A j \in 1..Len(buf') : buf'[j] = 0
          /\ init = 0 => (buf' = buf /\ init' = init)
      ]_vars

\* ensure_init() has zeroed the whole of an unfilled region of two or more
\* bytes of which nothing was tracked as initialized.
EnsureInitZeroesPrefixWitness ==
    /\ last.name = "ensure_init"
    /\ last.n = capacity(Self) /\ last.n > 1
    /\ filled = capacity(Self)

\* C12: advance(n) with n <= capacity(), from boundaries (f, i), ends with
\* filled = f-n and init = min(i, f-n) and changes no byte; len() grows by n,
\* the cursor's capacity() shrinks by n, and advance(0) changes nothing.
AdvanceMovesFilled ==
    [][(last'.name = "advance" /\ last'.n <= cursor_capacity(Self)) =>
          LET n == last'.n
          IN  /\ ~last'.panicked
              /\ filled' = filled - n
              /\ init' = min(init, filled - n)
              /\ buf' = buf
              /\ len(Self') = len(Self) + n
              /\ cursor_capacity(Self') = cursor_capacity(Self) - n
              /\ n = 0 => (filled' = filled /\ init' = init)
      ]_vars

\* One advance took a fresh cursor on a raw region with nothing initialized
\* down by two or more bytes, pulling init down with it.
AdvanceMovesFilledWitness ==
    /\ last.name = "advance" /\ last.n > 1
    /\ since = <<last.n>>
    /\ filled = capacity(Self) - last.n
    /\ init = filled
    /\ ~NoUndef(buf)

\* C13: Cursor::set_init(n), from boundaries (f, i) and for every n >= 0, sets
\* init = min(i, max(f-n, 0)) and changes nothing else: no underflow for
\* n > f, no change for n <= f-i, and afterwards at least min(n, f) bytes right
\* below filled are tracked as initialized.
CursorSetInitSaturates ==
    [][last'.name = "cursor_set_init" =>
          LET n == last'.n
              m == IF filled - n > 0 THEN filled - n ELSE 0
          IN  /\ init' = min(init, m)
              /\ init' >= 0
              /\ filled' = filled /\ buf' = buf /\ cursors' = cursors
              /\ n > filled => init' = 0
              /\ n <= filled - init => init' = init
              /\ filled' - init' >= min(n, filled)
      ]_vars

\* Cursor::set_init(n) with n beyond the cursor's non-zero capacity.
CursorSetInitSaturatesWitness ==
    /\ last.name = "cursor_set_init"
    /\ last.n > filled /\ filled > 0
    /\ init = 0

\* C14: while a cursor is live, capacity() of the cursor is the view's filled,
\* that is view.capacity() - view.len(); written() + capacity() is the cursor's
\* start, the start is the filled that unfilled() saw, and it never changes.
CursorCapacityIsFilled ==
    /\ [](cursors # <<>> =>
            /\ cursor_capacity(Self) = filled
            /\ cursor_capacity(Self) = capacity(Self) - len(Self)
            /\ \A k \in DOMAIN cursors :
                  written(cursors[k], Self) + cursor_capacity(Self) = cursors[k]
            /\ last.name = "unfilled" => Top = cursor_capacity(Self))
    /\ [][(cursors # <<>> /\ cursors' # <<>>) => cursors'[1] = cursors[1]]_vars

\* The scenario of the capacity test: a cursor taken on a view of capacity 3
\* with one byte filled has capacity() 2.
CursorCapacityIsFilledWitness ==
    /\ last.name = "unfilled"
    /\ capacity(Self) = 3 /\ len(Self) = 1
    /\ cursor_capacity(Self) = 2

\* C18: append of zero-length data never panics and changes nothing: the
\* region, filled, init, and with them written() and capacity(), stay as they
\* were, in every reachable state.
AppendNothingIsNoOp ==
    [][(last'.name = "append" /\ last'.n = 0) =>
          /\ ~last'.panicked
          /\ buf' = buf /\ filled' = filled /\ init' = init
          /\ cursors' = cursors
          /\ written(Top', Self') = written(Top, Self)
          /\ cursor_capacity(Self') = cursor_capacity(Self)
      ]_vars

\* A zero-length append on a partly filled raw region where init = filled and
\* undefined bytes lie right below.
AppendNothingIsNoOpWitness ==
    /\ last.name = "append" /\ last.n = 0 /\ ~last.panicked
    /\ init = filled /\ 0 < filled /\ filled < capacity(Self)
    /\ buf[filled] = Undef

\* C15 as stated: RevBorrowedBuf::set_init(n), called when the trailing n
\* bytes of the region are initialized, tracks no uninitialized byte as
\* initialized (every index >= init is defined afterwards) and leaves
\* init_len() >= n.
BufSetInitAttestedIsSafe ==
    [][(last'.name = "buf_set_init" /\ Defined(Self, init, capacity(Self))) =>
          /\ Defined(Self', init', capacity(Self'))
          /\ init_len(Self') >= last'.n
      ]_vars

\* C16 as stated: advance(n) with n > capacity() faults and leaves filled and
\* init as they were; no filled beyond capacity is ever stored.
OverstatedAdvanceFaults ==
    [][(last'.name = "advance" /\ last'.n > cursor_capacity(Self)) =>
          /\ last'.panicked
          /\ filled' = filled /\ init' = init
          /\ 0 <= init' /\ init' <= filled' /\ filled' <= capacity(Self')
      ]_vars

\* C17 as stated: through the operations without an `unsafe` marker, filled()
\* and init_ref() never return a byte that was never written or zeroed.
SafeApiExposesNoUndef ==
    /\ NoUndef(filled_ref(Self))
    /\ cursors # <<>> => NoUndef(init_ref(Self))

\* C19 as stated: is_empty() is true exactly when len() = 0.
IsEmptyIffNoneFilled == is_empty(Self) <=> (len(Self) = 0)

\* C20: the life cycle of a view of capacity C > 0. From Empty (filled = C) at
\* most C non-empty appends succeed before the view is Full (filled = 0), and a
\* run that keeps appending gets there unless a clear() intervenes; a complete
\* fill leaves init = 0; in Full every non-empty append panics and only clear()
\* changes filled; clear() gives filled = C and leaves init alone; the cursor
\* opened after it has capacity() = C again.
LifeCycle ==
    /\ [](/\ filled + rt.chunks <= capacity(Self)
          /\ filled = 0 => init = 0)
    /\ [][/\ (filled = 0 /\ last'.name = "append" /\ last'.n > 0) =>
                 (last'.panicked /\ filled' = 0)
          /\ (filled = 0 /\ filled' # 0) => last'.name = "clear"
          /\ last'.name = "clear" => (filled' = capacity(Self') /\ init' = init)
          /\ (last.name = "clear" /\ last'.name = "unfilled") =>
                 cursor_capacity(Self') = capacity(Self')
         ]_vars
    /\ []<>(filled = 0 \/ last.name = "clear")

LifeCycleWitness ==
    /\ rt.phase = "again" /\ filled = 0 /\ init = 0
    /\ capacity(Self) >= 2 /\ rt.chunks = capacity(Self)

====
